---- MODULE Spec2Model ----
(***************************************************************************)
(* ArrayBufferStream (src/index.js): a cursor over a fixed-size            *)
(* ArrayBuffer, read and written through a DataView.                       *)
(*                                                                         *)
(* Numbers.  TLC integers are 32 bits wide, so an integer JS number n is   *)
(* kept as the pair [q, r] with n = q * 65536 + r and 0 <= r < 65536       *)
(* (floor division, so q < 0 for a negative n).  A double is kept as its   *)
(* binary64 fields [neg, bexp, f20, f16a, f16b]: sign, biased exponent and *)
(* the 52 fraction bits split 20 + 16 + 16.  A UNorm input is the dyadic   *)
(* rational num / 2^sh, which a double holds exactly.                      *)
(***************************************************************************)
EXTENDS Integers, Sequences, FiniteSets, TLC

VARIABLES
    pc,            \* "new" before the constructor ran, "ready" after, "dead" if it threw
    buffer,        \* this.buffer: the bytes, buffer[i + 1] is the byte at offset i
    size,          \* this.size
    cursor,        \* this.cursor
    littleEndian,  \* this.littleEndian
    focus,         \* the numeric kind the caller uses in this run
    last,          \* the last call: its arguments, the state before it, its outcome
    mon,           \* the write / setCursor / read sequence in progress
    nops           \* number of calls made on the instance

vars == <<pc, buffer, size, cursor, littleEndian, focus, last, mon, nops>>

-----------------------------------------------------------------------------
(* Bounds of the model *)

BufSize == 8
MaxOps == 3
MaxTrip == 5
MaxArgs == 2
MaxCount == 2
DestLen == 4
MaxOffset == 1
MaxStrLen == 2
MaxItems == 3
MaxMixed == 7

-----------------------------------------------------------------------------
(* Numbers *)

I(n) == [q |-> n \div 65536, r |-> n % 65536]

D(neg, bexp, f20, f16a, f16b) ==
    [neg |-> neg, bexp |-> bexp, f20 |-> f20, f16a |-> f16a, f16b |-> f16b]

Q(num, sh) == [num |-> num, sh |-> sh]

Pow2(n) == IF n <= 0 THEN 1 ELSE 2 ^ n

RECURSIVE BitLen(_)
BitLen(n) == IF n <= 0 THEN 0 ELSE 1 + BitLen(n \div 2)

Reverse(s) == [i \in 1..Len(s) |-> s[Len(s) + 1 - i]]

Kinds == {"u8", "i8", "u16", "i16", "u32", "i32", "f32", "f64", "un8", "un16"}
IntKinds == {"u8", "i8", "u16", "i16", "u32", "i32"}
FloatKinds == {"f32", "f64"}
NormKinds == {"un8", "un16"}

-----------------------------------------------------------------------------
(* JavaScript values as the constructor and setCursor receive them, and    *)
(* the conversions the code applies to them (+x, typeof x, !!x)            *)

\* the number twice / 2 (halves give the non-integers the code floors)
Num(twice) == [t |-> "number", nan |-> FALSE, inf |-> 0, twice |-> twice]
NaN == [t |-> "number", nan |-> TRUE, inf |-> 0, twice |-> 0]
\* Infinity (sign = 1) and -Infinity (sign = -1)
Infinity(sign) == [t |-> "number", nan |-> FALSE, inf |-> sign, twice |-> 0]

Undefined == [t |-> "undefined"]
Null == [t |-> "null"]
Bool(b) == [t |-> "boolean", b |-> b]
\* a string, as the sequence of its char codes
Str(chars) == [t |-> "string", chars |-> chars]
\* an ArrayBuffer holding the given bytes
ArrayBufferOf(bytes) == [t |-> "ArrayBuffer", bytes |-> bytes, data |-> Undefined]
\* a Node Buffer: a view of byteLength bytes at byteOffset of the ArrayBuffer outer
NodeBuffer(outer, byteOffset, byteLength) ==
    [t |-> "Buffer", buffer |-> outer, byteOffset |-> byteOffset,
     byteLength |-> byteLength, data |-> Undefined]
PlainObject == [t |-> "Object", data |-> Undefined]

\* the value of a string of decimal digits
RECURSIVE DigitsValue(_, _)
DigitsValue(chars, acc) ==
    IF chars = <<>> THEN acc ELSE DigitsValue(Tail(chars), 10 * acc + (Head(chars) - 48))

\* +str: the empty string is 0, decimal digits are their value, other text is NaN
StringToNumber(chars) ==
    IF \A i \in 1..Len(chars) : chars[i] \in 48..57
    THEN Num(2 * DigitsValue(chars, 0))
    ELSE NaN

\* +x.  An object converts through its toString(): "[object ArrayBuffer]",
\* "[object Object]", and for a Node Buffer the text its bytes spell.
ToNumber(x) ==
    CASE x.t = "number" -> x
      [] x.t = "undefined" -> NaN
      [] x.t = "null" -> Num(0)
      [] x.t = "boolean" -> IF x.b THEN Num(2) ELSE Num(0)
      [] x.t = "string" -> StringToNumber(x.chars)
      [] x.t = "Buffer" ->
            StringToNumber(SubSeq(x.buffer.bytes, x.byteOffset + 1, x.byteOffset + x.byteLength))
      [] OTHER -> NaN

\* typeof x
TypeOf(x) ==
    CASE x.t \in {"number", "undefined", "boolean", "string"} -> x.t
      [] OTHER -> "object"

\* !!x of the values passed as littleEndian
ToBoolean(x) == x.t = "boolean" /\ x.b

\* Object.prototype.toString(x): the method is called on Object.prototype itself
\* (no .call), so its argument is ignored
ObjectPrototypeToString(x) == "[object Object]"

\* str.indexOf('ArrayBuffer') >= 0, for the strings Object.prototype.toString gives
MentionsArrayBuffer(str) == str \in {"[object ArrayBuffer]", "[object SharedArrayBuffer]"}

-----------------------------------------------------------------------------
(* The DataView accessors the class calls (ECMAScript GetViewValue /       *)
(* SetViewValue): element sizes, number <-> bytes, the bounds test.        *)

ElementSize(acc) ==
    CASE acc \in {"Uint8", "Int8"} -> 1
      [] acc \in {"Uint16", "Int16"} -> 2
      [] acc \in {"Uint32", "Int32", "Float32"} -> 4
      [] acc = "Float64" -> 8

\* mutant: one-byte stores that saturate, as a Uint8ClampedArray does
IntToBytes_Saturates(acc, v) ==
    CASE ElementSize(acc) = 1 ->
            <<IF v.q < 0 THEN 0 ELSE IF v.q > 0 \/ v.r > 255 THEN 255 ELSE v.r>>
      [] ElementSize(acc) = 2 -> <<v.r \div 256, v.r % 256>>
      [] ElementSize(acc) = 4 ->
            <<(v.q % 65536) \div 256, (v.q % 65536) % 256, v.r \div 256, v.r % 256>>

\* ToUint8 / ToInt16 / ... : the low bytes of the two's complement form, high byte first
IntToBytes(acc, v) ==
    CASE ElementSize(acc) = 1 -> <<v.r % 256>>
      [] ElementSize(acc) = 2 -> <<v.r \div 256, v.r % 256>>
      [] ElementSize(acc) = 4 ->
            <<(v.q % 65536) \div 256, (v.q % 65536) % 256, v.r \div 256, v.r % 256>>

BytesToInt(acc, b) ==
    CASE acc = "Uint8" -> [q |-> 0, r |-> b[1]]
      [] acc = "Int8" ->
            IF b[1] >= 128 THEN [q |-> -1, r |-> 65280 + b[1]] ELSE [q |-> 0, r |-> b[1]]
      [] acc = "Uint16" -> [q |-> 0, r |-> b[1] * 256 + b[2]]
      [] acc = "Int16" ->
            [q |-> IF b[1] >= 128 THEN -1 ELSE 0, r |-> b[1] * 256 + b[2]]
      [] acc = "Uint32" -> [q |-> b[1] * 256 + b[2], r |-> b[3] * 256 + b[4]]
      [] acc = "Int32" ->
            [q |-> IF b[1] >= 128 THEN b[1] * 256 + b[2] - 65536 ELSE b[1] * 256 + b[2],
             r |-> b[3] * 256 + b[4]]

Word(w) == <<w \div 256, w % 256>>

Float64ToBytes(d) ==
    Word((IF d.neg THEN 32768 ELSE 0) + d.bexp * 16 + d.f20 \div 65536)
        \o Word(d.f20 % 65536) \o Word(d.f16a) \o Word(d.f16b)

BytesToFloat64(b) ==
    LET w0 == b[1] * 256 + b[2]
    IN  [neg |-> w0 >= 32768,
         bexp |-> (w0 % 32768) \div 16,
         f20 |-> (w0 % 16) * 65536 + b[3] * 256 + b[4],
         f16a |-> b[5] * 256 + b[6],
         f16b |-> b[7] * 256 + b[8]]

\* binary32 fields [neg, bexp, frac] of the double d, rounded to nearest, ties to even
ToFloat32(d) ==
    LET top23 == d.f20 * 8 + d.f16a \div 8192
        rem == (d.f16a % 8192) * 65536 + d.f16b
        b32 == d.bexp - 1023 + 127
        up == rem > 268435456 \/ (rem = 268435456 /\ top23 % 2 = 1)
        m == top23 + (IF up THEN 1 ELSE 0)
        s == 1 - b32
        sig == 8388608 + top23
        base == sig \div Pow2(s)
        r2 == sig % Pow2(s)
        half == Pow2(s - 1)
        upS == r2 > half \/ (r2 = half /\ (rem > 0 \/ base % 2 = 1))
        mS == base + (IF upS THEN 1 ELSE 0)
    IN  CASE d.bexp = 2047 ->
               [neg |-> d.neg, bexp |-> 255,
                frac |-> IF d.f20 = 0 /\ d.f16a = 0 /\ d.f16b = 0 THEN 0 ELSE 4194304]
          [] d.bexp = 0 -> [neg |-> d.neg, bexp |-> 0, frac |-> 0]
          [] d.bexp \in 1..2046 /\ b32 >= 1 ->
               IF b32 + (IF m = 8388608 THEN 1 ELSE 0) >= 255
               THEN [neg |-> d.neg, bexp |-> 255, frac |-> 0]
               ELSE IF m = 8388608
                    THEN [neg |-> d.neg, bexp |-> b32 + 1, frac |-> 0]
                    ELSE [neg |-> d.neg, bexp |-> b32, frac |-> m]
          [] d.bexp \in 1..2046 /\ b32 < 1 /\ s > 25 ->
               [neg |-> d.neg, bexp |-> 0, frac |-> 0]
          [] d.bexp \in 1..2046 /\ b32 < 1 /\ s <= 25 ->
               IF mS = 8388608
               THEN [neg |-> d.neg, bexp |-> 1, frac |-> 0]
               ELSE [neg |-> d.neg, bexp |-> 0, frac |-> mS]

\* the double equal to the binary32 value f
FromFloat32(f) ==
    LET widen(bexp, frac) ==
            [neg |-> f.neg, bexp |-> bexp, f20 |-> frac \div 8,
             f16a |-> (frac % 8) * 8192, f16b |-> 0]
        L == BitLen(f.frac)
    IN  CASE f.bexp = 255 -> widen(2047, f.frac)
          [] f.bexp = 0 /\ f.frac = 0 -> widen(0, 0)
          [] f.bexp = 0 /\ f.frac > 0 ->
               widen(L - 1 - 149 + 1023, (f.frac - Pow2(L - 1)) * Pow2(24 - L))
          [] OTHER -> widen(f.bexp - 127 + 1023, f.frac)

\* Double arithmetic on small integers: a natural number is kept as its bytes,
\* least significant first, so that no product leaves TLC's integers.

\* the limbs of p * n from limb i on, with the carry added (n < 65536)
RECURSIVE TimesLimbs(_, _, _, _)
TimesLimbs(p, n, i, carry) ==
    IF i > Len(p)
    THEN IF carry = 0 THEN <<>>
         ELSE <<carry % 256>> \o TimesLimbs(p, n, i, carry \div 256)
    ELSE LET t == p[i] * n + carry
         IN  <<t % 256>> \o TimesLimbs(p, n, i + 1, t \div 256)

\* quotient and remainder of the limbs p[1..i], below the remainder rem, by d < 65536
RECURSIVE DivLimbs(_, _, _, _)
DivLimbs(p, d, i, rem) ==
    IF i = 0 THEN [q |-> <<>>, rem |-> rem]
    ELSE LET cur == rem * 256 + p[i]
             rest == DivLimbs(p, d, i - 1, cur % d)
         IN  [q |-> Append(rest.q, cur \div d), rem |-> rest.rem]

RECURSIVE BitLength(_)
BitLength(p) ==
    IF p = <<>> THEN 0
    ELSE IF p[Len(p)] = 0 THEN BitLength(SubSeq(p, 1, Len(p) - 1))
    ELSE 8 * (Len(p) - 1) + BitLen(p[Len(p)])

BitAt(p, i) ==
    IF i < 0 \/ i \div 8 + 1 > Len(p) THEN 0 ELSE (p[i \div 8 + 1] \div Pow2(i % 8)) % 2

\* the number made of count bits of p from bit from on
RECURSIVE BitsFrom(_, _, _)
BitsFrom(p, from, count) ==
    IF count = 0 THEN 0 ELSE BitAt(p, from) + 2 * BitsFrom(p, from + 1, count - 1)

\* the double after the positive double d
NextDouble(d) ==
    IF d.f16b < 65535 THEN [d EXCEPT !.f16b = @ + 1]
    ELSE IF d.f16a < 65535 THEN [d EXCEPT !.f16b = 0, !.f16a = @ + 1]
    ELSE IF d.f20 < 1048575 THEN [d EXCEPT !.f16b = 0, !.f16a = 0, !.f20 = @ + 1]
    ELSE [d EXCEPT !.f16b = 0, !.f16a = 0, !.f20 = 0, !.bexp = @ + 1]

\* the double nearest (ties to even) the number p * 2^e2 + a part below one unit of
\* p, that part not zero when inexact; for results in the normal range
RoundToDouble(p, inexact, e2) ==
    LET L == BitLength(p)
        s == L - 53
        kept == D(FALSE, 1023 + 52 + s + e2,
                  BitsFrom(p, s + 32, 20), BitsFrom(p, s + 16, 16), BitsFrom(p, s, 16))
        half == BitAt(p, s - 1) = 1
        sticky == inexact \/ \E j \in 0..(s - 2) : BitAt(p, j) = 1
    IN  IF L = 0 THEN D(FALSE, 0, 0, 0, 0)
        ELSE IF half /\ (sticky \/ kept.f16b % 2 = 1) THEN NextDouble(kept)
        ELSE kept

\* the 53-bit significand of the double d, and the power of two it counts
Significand(d) ==
    <<d.f16b % 256, d.f16b \div 256, d.f16a % 256, d.f16a \div 256,
      d.f20 % 256, (d.f20 \div 256) % 256, d.f20 \div 65536 + (IF d.bexp = 0 THEN 0 ELSE 16)>>

Exponent(d) == (IF d.bexp = 0 THEN 1 ELSE d.bexp) - 1075

\* d * n in JavaScript, for a finite double d and an integer n in 0..65535
TimesInt(d, n) ==
    [RoundToDouble(TimesLimbs(Significand(d), n, 1, 0), FALSE, Exponent(d))
        EXCEPT !.neg = d.neg]

\* k / d in JavaScript, for integers k in 0..65535 and d in 1..65535
DivideInts(k, d) ==
    LET num == [i \in 1..12 |-> IF i = 11 THEN k % 256 ELSE IF i = 12 THEN k \div 256 ELSE 0]
        res == DivLimbs(num, d, 12, 0)
    IN  RoundToDouble(res.q, res.rem # 0, -80)

\* Math.floor(d) as an integer, for a double d of magnitude below 2^31
FloorDouble(d) ==
    LET e == d.bexp - 1023
        whole == IF e < 0 THEN 0 ELSE BitsFrom(Significand(d), 52 - e, e + 1)
        part == IF d.bexp = 0 THEN d.f20 + d.f16a + d.f16b > 0
                ELSE e < 0 \/ \E j \in 0..(51 - e) : BitAt(Significand(d), j) = 1
    IN  IF d.neg THEN I(0 - whole - (IF part THEN 1 ELSE 0)) ELSE I(whole)

Float32ToBytes(d) ==
    LET f == ToFloat32(d)
    IN  Word((IF f.neg THEN 32768 ELSE 0) + f.bexp * 128 + f.frac \div 65536)
            \o Word(f.frac % 65536)

BytesToFloat32(b) ==
    LET w0 == b[1] * 256 + b[2]
    IN  FromFloat32([neg |-> w0 >= 32768,
                     bexp |-> (w0 % 32768) \div 128,
                     frac |-> (w0 % 128) * 65536 + b[3] * 256 + b[4]])

\* the bytes SetViewValue stores for number v, in buffer order
NumberToRawBytes(acc, v, le) ==
    LET be == CASE acc = "Float32" -> Float32ToBytes(v)
                [] acc = "Float64" -> Float64ToBytes(v)
                [] OTHER -> IntToBytes(acc, v)
    IN  IF le THEN Reverse(be) ELSE be

\* the number GetViewValue makes of the bytes raw, taken in buffer order
RawBytesToNumber(acc, raw, le) ==
    LET be == IF le THEN Reverse(raw) ELSE raw
    IN  CASE acc = "Float32" -> BytesToFloat32(be)
          [] acc = "Float64" -> BytesToFloat64(be)
          [] OTHER -> BytesToInt(acc, be)

\* getIndex + elementSize > viewSize throws a RangeError
ViewInBounds(idx, acc, viewSize) == idx >= 0 /\ idx + ElementSize(acc) <= viewSize

\* mutant: the littleEndian argument not passed on (DataView then stores big-endian)
SetViewValue_OrderNotPassed(buf, idx, acc, v, le) ==
    LET raw == NumberToRawBytes(acc, v, FALSE)
    IN  [i \in 1..Len(buf) |->
            IF i - 1 >= idx /\ i - 1 < idx + ElementSize(acc) THEN raw[i - idx] ELSE buf[i]]

\* mutant: a store that clears the byte after the element
SetViewValue_OneByteMore(buf, idx, acc, v, le) ==
    LET raw == NumberToRawBytes(acc, v, le)
    IN  [i \in 1..Len(buf) |->
            IF i - 1 >= idx /\ i - 1 < idx + ElementSize(acc) THEN raw[i - idx]
            ELSE IF i - 1 = idx + ElementSize(acc) THEN 0 ELSE buf[i]]

SetViewValue(buf, idx, acc, v, le) ==
    LET raw == NumberToRawBytes(acc, v, le)
    IN  [i \in 1..Len(buf) |->
            IF i - 1 >= idx /\ i - 1 < idx + ElementSize(acc) THEN raw[i - idx] ELSE buf[i]]

GetViewValue(buf, idx, acc, le) ==
    RawBytesToNumber(acc, [i \in 1..ElementSize(acc) |-> buf[idx + i]], le)

-----------------------------------------------------------------------------
(* Typed arrays: the destination of a batch read *)

\* the element a typed array of the given element type keeps for the number v.
\* Of the doubles k * (1 / max) only 0 and 1 are float32 values: a Float32Array
\* keeps the others rounded (f32), which is a different number.
ArrayElement(type, v) ==
    CASE type = "Float64" -> v
      [] type = "Float32" /\ "k" \in DOMAIN v -> [v EXCEPT !.f32 = @ \/ v.k \notin {0, v.max}]
      [] type = "Float32" /\ "k" \notin DOMAIN v -> FromFloat32(ToFloat32(v))
      [] OTHER -> BytesToInt(type, IntToBytes(type, v))

\* dest[j] = v: an index outside the array is ignored
ArrayStore(dest, j, v) ==
    IF j >= 0 /\ j < Len(dest.elems)
    THEN [dest EXCEPT !.elems[j + 1] = ArrayElement(dest.type, v)]
    ELSE dest

-----------------------------------------------------------------------------
(* class ArrayBufferStream: what each method calls *)

Methods ==
    {"setCursor", "trimToCursor", "writeASCIIString", "getNextASCIIString",
     "writeUint8", "getNextUint8", "getNextUint8Array",
     "writeInt8", "getNextInt8", "getNextInt8Array",
     "writeUint16", "getNextUint16", "getNextUint16Array",
     "writeInt16", "getNextInt16", "getNextInt16Array",
     "writeUint32", "getNextUint32", "getNextUint32Array",
     "writeInt32", "getNextInt32", "getNextInt32Array",
     "writeUNorm8", "getNextUNorm8", "getNextUNorm8Array",
     "writeUNorm16", "getNextUNorm16", "getNextUNorm16Array",
     "writeFloat32", "getNextFloat32", "getNextFloat32Array",
     "writeFloat64", "getNextFloat64", "getNextFloat64Array"}

KindName(kind) ==
    CASE kind = "u8" -> "Uint8" [] kind = "i8" -> "Int8"
      [] kind = "u16" -> "Uint16" [] kind = "i16" -> "Int16"
      [] kind = "u32" -> "Uint32" [] kind = "i32" -> "Int32"
      [] kind = "f32" -> "Float32" [] kind = "f64" -> "Float64"
      [] kind = "un8" -> "UNorm8" [] kind = "un16" -> "UNorm16"

\* mutant: writeUint16 calling setUint8
WriteAccessor_Uint8For16(kind) ==
    CASE kind = "un8" -> "Uint8" [] kind = "un16" -> "Uint16"
      [] kind = "u16" -> "Uint8" [] OTHER -> KindName(kind)

\* this.dv.setX of writeX
WriteAccessor(kind) ==
    CASE kind = "un8" -> "Uint8" [] kind = "un16" -> "Uint16" [] OTHER -> KindName(kind)

\* mutant: getNextFloat32 calling getFloat64
ReadAccessor_Float64For32(kind) ==
    CASE kind = "un8" -> "Uint8" [] kind = "un16" -> "Uint16"
      [] kind = "f32" -> "Float64" [] OTHER -> KindName(kind)

\* mutant: getNextUint32 calling getInt32
ReadAccessor_SignedFor32(kind) ==
    CASE kind = "un8" -> "Uint8" [] kind = "un16" -> "Uint16"
      [] kind = "u32" -> "Int32" [] OTHER -> KindName(kind)

\* this.dv.getX of getNextX
ReadAccessor(kind) ==
    CASE kind = "un8" -> "Uint8" [] kind = "un16" -> "Uint16" [] OTHER -> KindName(kind)

\* mutant: getNextUint16Array calling getUint8
ArrayAccessor_Uint8For16(kind) ==
    CASE kind = "un8" -> "Uint8" [] kind = "un16" -> "Uint16"
      [] kind = "u16" -> "Uint8" [] OTHER -> KindName(kind)

\* this.dv.getX of getNextXArray
ArrayAccessor(kind) ==
    CASE kind = "un8" -> "Uint8" [] kind = "un16" -> "Uint16" [] OTHER -> KindName(kind)

\* new XArray(length) of getNextXArray
ArrayType(kind) ==
    CASE kind \in {"un8", "un16", "f32"} -> "Float32" [] OTHER -> KindName(kind)

\* mutant: the Uint16 methods passing this.cursor++ as the 8-bit methods do
IncrementsInCall_AlsoUint16(kind) == kind \in {"u8", "i8", "un8", "u16"}

\* the 8-bit methods pass this.cursor++ as the index: the cursor moves before the
\* DataView call is made, so also when that call throws
IncrementsInCall(kind) == kind \in {"u8", "i8", "un8"}

\* mutant: the Int32 methods advancing by 2, as the Int16 methods they were copied from
CursorStep_TwoForInt32(kind) ==
    CASE kind \in {"u8", "i8", "un8"} -> 1
      [] kind \in {"u16", "i16", "un16", "i32"} -> 2
      [] kind \in {"u32", "f32"} -> 4
      [] kind = "f64" -> 8

\* this.cursor += n after the DataView call (1 stands for the ++ above)
CursorStep(kind) ==
    CASE kind \in {"u8", "i8", "un8"} -> 1
      [] kind \in {"u16", "i16", "un16"} -> 2
      [] kind \in {"u32", "i32", "f32"} -> 4
      [] kind = "f64" -> 8

\* BYTE_TO_NORM = 1 / 0xFF and SHORT_TO_NORM = 1 / 0xFFFF
ByteToNorm == DivideInts(1, 255)
ShortToNorm == DivideInts(1, 65535)

\* mutant: getNextUNorm8 scaling by SHORT_TO_NORM
NormFactor_ShortForByte(max) == ShortToNorm

\* the constant the read of a normalized kind multiplies by
NormFactor(max) == IF max = 255 THEN ByteToNorm ELSE ShortToNorm

\* Math.floor(val[i] * 0xFF), Math.floor(val[i] * 0xFFFF) for a double val[i], and
\* for val[i] = num / 2^sh of few bits, whose product is exact; other kinds pass val[i]
WriteOperand(kind, v) ==
    CASE kind = "un8" /\ "num" \notin DOMAIN v -> FloorDouble(TimesInt(v, 255))
      [] kind = "un16" /\ "num" \notin DOMAIN v -> FloorDouble(TimesInt(v, 65535))
      [] kind = "un8" /\ "num" \in DOMAIN v -> I((v.num * 255) \div Pow2(v.sh))
      [] kind = "un16" /\ "num" \in DOMAIN v -> I((v.num * 65535) \div Pow2(v.sh))
      [] OTHER -> v

\* n * BYTE_TO_NORM, n * SHORT_TO_NORM, kept as the pair of n and the scale;
\* NormToDouble gives the double
ReadResult(kind, n) ==
    CASE kind = "un8" -> [k |-> n.r, max |-> 255, f32 |-> FALSE]
      [] kind = "un16" -> [k |-> n.r, max |-> 65535, f32 |-> FALSE]
      [] OTHER -> n

\* the double a read of a normalized kind returns (a Float32Array element holds it
\* rounded to binary32)
NormToDouble(r) ==
    LET d == TimesInt(NormFactor(r.max), r.k)
    IN  IF r.f32 THEN FromFloat32(ToFloat32(d)) ELSE d

-----------------------------------------------------------------------------
(* The methods, as functions of the instance's fields.  Each gives the     *)
(* fields after the call, the error thrown ("none" if the call returned)   *)
(* and the value returned.                                                 *)

Nil == [nil |-> TRUE]

\* writeUint8(...val) .. writeFloat64(...val): the loop from val[i] on
RECURSIVE WriteFrom(_, _, _, _, _, _)
WriteFrom(kind, buf, cur, le, vals, i) ==
    IF i > Len(vals)
    THEN [buffer |-> buf, cursor |-> cur, threw |-> "none"]
    ELSE IF IncrementsInCall(kind)
         THEN IF ViewInBounds(cur, WriteAccessor(kind), Len(buf))
              THEN WriteFrom(kind,
                             SetViewValue(buf, cur, WriteAccessor(kind),
                                          WriteOperand(kind, vals[i]), le),
                             cur + 1, le, vals, i + 1)
              ELSE [buffer |-> buf, cursor |-> cur + 1, threw |-> "RangeError"]
         ELSE IF ViewInBounds(cur, WriteAccessor(kind), Len(buf))
              THEN WriteFrom(kind,
                             SetViewValue(buf, cur, WriteAccessor(kind),
                                          WriteOperand(kind, vals[i]), le),
                             cur + CursorStep(kind), le, vals, i + 1)
              ELSE [buffer |-> buf, cursor |-> cur, threw |-> "RangeError"]

\* mutant: a store made byte by byte, which throws only on reaching the end of the buffer
Write_BytewiseStore(kind, buf, cur, le, vals) ==
    LET o == WriteFrom(kind, buf, cur, le, vals, 1)
    IN  IF o.threw = "none" THEN o
        ELSE [o EXCEPT !.buffer = [i \in 1..Len(buf) |->
                                      IF i - 1 >= o.cursor THEN 170 ELSE o.buffer[i]]]

\* mutant: room for all the values tested before the first is written
Write_ChecksAllFirst(kind, buf, cur, le, vals) ==
    IF cur + Len(vals) * CursorStep(kind) > Len(buf)
    THEN [buffer |-> buf, cursor |-> cur, threw |-> "RangeError"]
    ELSE WriteFrom(kind, buf, cur, le, vals, 1)

Write(kind, buf, cur, le, vals) == WriteFrom(kind, buf, cur, le, vals, 1)

\* getNextUint8() .. getNextFloat64()
GetNext(kind, buf, cur, le) ==
    IF IncrementsInCall(kind)
    THEN IF ViewInBounds(cur, ReadAccessor(kind), Len(buf))
         THEN [cursor |-> cur + 1, threw |-> "none",
               ret |-> ReadResult(kind, GetViewValue(buf, cur, ReadAccessor(kind), le))]
         ELSE [cursor |-> cur + 1, threw |-> "RangeError", ret |-> Nil]
    ELSE IF ViewInBounds(cur, ReadAccessor(kind), Len(buf))
         THEN [cursor |-> cur + CursorStep(kind), threw |-> "none",
               ret |-> ReadResult(kind, GetViewValue(buf, cur, ReadAccessor(kind), le))]
         ELSE [cursor |-> cur, threw |-> "RangeError", ret |-> Nil]

\* getNextUint8Array(length, dest, offset) ..: the loop from index i on; dest is the
\* array after "dest = dest || new XArray(length)"
RECURSIVE ArrayFrom(_, _, _, _, _, _, _, _)
ArrayFrom(kind, buf, cur, le, length, dest, offset, i) ==
    IF i >= length
    THEN [cursor |-> cur, threw |-> "none", dest |-> dest]
    ELSE IF IncrementsInCall(kind)
         THEN IF ViewInBounds(cur, ArrayAccessor(kind), Len(buf))
              THEN ArrayFrom(kind, buf, cur + 1, le, length,
                             ArrayStore(dest, i + offset,
                                        ReadResult(kind, GetViewValue(buf, cur, ArrayAccessor(kind), le))),
                             offset, i + 1)
              ELSE [cursor |-> cur + 1, threw |-> "RangeError", dest |-> dest]
         ELSE IF ViewInBounds(cur, ArrayAccessor(kind), Len(buf))
              THEN ArrayFrom(kind, buf, cur + CursorStep(kind), le, length,
                             ArrayStore(dest, i + offset,
                                        ReadResult(kind, GetViewValue(buf, cur, ArrayAccessor(kind), le))),
                             offset, i + 1)
              ELSE [cursor |-> cur, threw |-> "RangeError", dest |-> dest]

\* the zero element of a new typed array, as the class's reads present numbers
ZeroOf(kind) ==
    CASE kind = "un8" -> [k |-> 0, max |-> 255, f32 |-> FALSE]
      [] kind = "un16" -> [k |-> 0, max |-> 65535, f32 |-> FALSE]
      [] kind \in FloatKinds -> D(FALSE, 0, 0, 0, 0)
      [] OTHER -> I(0)

NewArray(kind, length) ==
    [ref |-> "new", type |-> ArrayType(kind), elems |-> [j \in 1..length |-> ZeroOf(kind)]]

\* mutant: the offset left out of the index
GetNextArray_IgnoresOffset(kind, buf, cur, le, length, dest, offset) ==
    ArrayFrom(kind, buf, cur, le, length,
              IF dest = Nil THEN NewArray(kind, length) ELSE dest, 0, 0)

\* dest is Nil when the caller passes none; offset is an integer (0 when omitted)
GetNextArray(kind, buf, cur, le, length, dest, offset) ==
    ArrayFrom(kind, buf, cur, le, length,
              IF dest = Nil THEN NewArray(kind, length) ELSE dest, offset, 0)

\* writeASCIIString(str): str is the sequence of its char codes
RECURSIVE WriteCharsFrom(_, _, _, _)
WriteCharsFrom(buf, cur, str, i) ==
    IF i > Len(str)
    THEN IF ViewInBounds(cur, "Uint8", Len(buf))
         THEN [buffer |-> SetViewValue(buf, cur, "Uint8", I(0), FALSE),
               cursor |-> cur + 1, threw |-> "none"]
         ELSE [buffer |-> buf, cursor |-> cur + 1, threw |-> "RangeError"]
    ELSE IF ViewInBounds(cur, "Uint8", Len(buf))
         THEN WriteCharsFrom(SetViewValue(buf, cur, "Uint8", I(str[i]), FALSE),
                             cur + 1, str, i + 1)
         ELSE [buffer |-> buf, cursor |-> cur + 1, threw |-> "RangeError"]

WriteASCIIString(buf, cur, str) == WriteCharsFrom(buf, cur, str, 1)

\* getNextASCIIString(): the while loop with index i and lineBuffer line
RECURSIVE ScanFrom(_, _, _, _)
ScanFrom(buf, sz, i, line) ==
    IF i < sz
    THEN IF GetViewValue(buf, i, "Uint8", FALSE).r = 0
         THEN [cursor |-> i + 1, ret |-> [str |-> line]]
         ELSE ScanFrom(buf, sz, i + 1, Append(line, GetViewValue(buf, i, "Uint8", FALSE).r))
    ELSE [cursor |-> i, ret |-> [str |-> line]]

\* mutant: the cursor left on the terminator instead of past it
GetNextASCIIString_StopsOnTerminator(buf, sz, cur) ==
    LET o == ScanFrom(buf, sz, cur, <<>>)
    IN  [o EXCEPT !.cursor = IF cur + Len(o.ret.str) < sz THEN cur + Len(o.ret.str) ELSE @]

\* mutant: the cursor brought back into the buffer, this.cursor = Math.min(i, size)
GetNextASCIIString_BackToSize(buf, sz, cur) ==
    LET o == ScanFrom(buf, sz, cur, <<>>)
    IN  [o EXCEPT !.cursor = IF @ > sz THEN sz ELSE @]

GetNextASCIIString(buf, sz, cur) == ScanFrom(buf, sz, cur, <<>>)

\* trimToCursor(): ArrayBuffer.prototype.slice clamps the end to the byte length
TrimToCursor(buf, cur) ==
    LET end == IF cur > Len(buf) THEN Len(buf) ELSE IF cur < 0 THEN 0 ELSE cur
    IN  [bytes |-> SubSeq(buf, 1, end)]

\* mutant: the test for a negative position left out
SetCursorOutcome_NoNegativeTest(sz, cur, arg) ==
    LET i == ToNumber(arg)
    IN  IF i.nan
        THEN [cursor |-> cur, threw |-> "string"]
        ELSE IF i.inf # 0 \/ i.twice > 2 * sz
             THEN [cursor |-> cur, threw |-> "string"]
             ELSE [cursor |-> i.twice \div 2, threw |-> "none"]

\* mutant: i >= this.size in place of i > this.size
SetCursorOutcome_RejectsSize(sz, cur, arg) ==
    LET i == ToNumber(arg)
    IN  IF i.nan
        THEN [cursor |-> cur, threw |-> "string"]
        ELSE IF i.inf # 0 \/ i.twice >= 2 * sz \/ i.twice < 0
             THEN [cursor |-> cur, threw |-> "string"]
             ELSE [cursor |-> i.twice \div 2, threw |-> "none"]

\* setCursor(cursor), with i = +cursor
SetCursorOutcome(sz, cur, arg) ==
    LET i == ToNumber(arg)
    IN  IF i.nan
        THEN [cursor |-> cur, threw |-> "string"]
        ELSE IF (i.inf = 1 \/ (i.inf = 0 /\ i.twice > 2 * sz))
                \/ (i.inf = -1 \/ (i.inf = 0 /\ i.twice < 0))
             THEN [cursor |-> cur, threw |-> "string"]
             ELSE [cursor |-> i.twice \div 2, threw |-> "none"]

\* mutant: Math.ceil in place of Math.floor
AllocationLength_Ceil(numValue) == (numValue.twice + 1) \div 2

\* Math.floor(numValue), of a finite number
AllocationLength(numValue) == numValue.twice \div 2

\* constructor(arg, littleEndian): the error thrown or the fields of the instance;
\* ref tells which object this.buffer is (a new one, arg itself, a slice of arg.buffer)
Constructor(arg, le) ==
    LET numValue == ToNumber(arg)
        Failed(err) == [threw |-> err, buffer |-> <<>>, ref |-> "none", size |-> 0,
                        cursor |-> 0, littleEndian |-> FALSE]
        Made(bytes, ref) == [threw |-> "none", buffer |-> bytes, ref |-> ref,
                             size |-> Len(bytes), cursor |-> 0,
                             littleEndian |-> ToBoolean(le)]
    IN  IF ~numValue.nan
        THEN \* new ArrayBuffer(Math.floor(numValue))
             IF numValue.inf # 0 \/ AllocationLength(numValue) < 0
             THEN Failed("RangeError")
             ELSE Made([i \in 1..AllocationLength(numValue) |-> 0], "new")
        ELSE IF TypeOf(arg) = "object"
             THEN IF MentionsArrayBuffer(ObjectPrototypeToString(arg))
                  THEN Made(arg.bytes, "arg")
                  ELSE IF MentionsArrayBuffer(ObjectPrototypeToString(arg.data))
                       THEN Made(SubSeq(arg.buffer.bytes, arg.byteOffset + 1,
                                        arg.byteOffset + arg.byteLength), "slice")
                       ELSE Failed("string")
             ELSE Failed("string")

-----------------------------------------------------------------------------
(* What the caller passes *)

\* per kind: two of the values the kind represents
Vals(kind) ==
    CASE kind = "u8" -> {I(255), I(81)}
      [] kind = "i8" -> {I(-128), I(127)}
      [] kind = "u16" -> {I(65535), I(258)}
      [] kind = "i16" -> {I(-32768), I(32767)}
      [] kind = "u32" -> {[q |-> 65535, r |-> 65535], [q |-> 258, r |-> 772]}
      [] kind = "i32" -> {[q |-> -32768, r |-> 0], [q |-> 32767, r |-> 65535]}
      [] kind \in FloatKinds -> {D(FALSE, 1025, 393216, 0, 0),
                                 D(FALSE, 1019, 629145, 39321, 39322)}
      [] kind \in NormKinds -> {Q(1, 1), Q(1, 0)}

\* per kind: a value above the range, one below it, one inside it
ClampVals(kind) ==
    CASE kind \in {"u8", "i8"} -> {I(4124), I(-141), I(15)}
      [] kind \in {"u16", "i16"} -> {I(1000000), I(-1000000), I(15)}
      [] kind \in {"u32", "i32"} -> {[q |-> 70000, r |-> 1], [q |-> -70000, r |-> 1], I(15)}
      [] kind \in NormKinds -> {Q(200, 0), Q(-200, 0), Q(1, 1)}

\* per normalized kind, doubles in [0, 1]: 0.2 and 1 (as the tests write), one whose
\* scaled value lies between two integers (17/128, 67/131072) and the double
\* nearest 1 / max
NormVals(kind) ==
    CASE kind = "un8" -> {D(FALSE, 1020, 629145, 39321, 39322), D(FALSE, 1023, 0, 0, 0),
                          D(FALSE, 1020, 65536, 0, 0), D(FALSE, 1015, 4112, 4112, 4112)}
      [] kind = "un16" -> {D(FALSE, 1020, 629145, 39321, 39322), D(FALSE, 1023, 0, 0, 0),
                           D(FALSE, 1012, 49152, 0, 0), D(FALSE, 1007, 16, 16, 16)}

\* per integer kind: a value above what the kind represents and one below it
WrapVals(kind) ==
    CASE kind = "u8" -> {I(300), I(-1)}
      [] kind = "i8" -> {I(200), I(-129)}
      [] kind = "u16" -> {I(65794), I(-2)}
      [] kind = "i16" -> {I(40000), I(-32769)}
      [] kind = "u32" -> {[q |-> 65536, r |-> 5], I(-1)}
      [] kind = "i32" -> {[q |-> 32768, r |-> 0], [q |-> -32769, r |-> 65535]}

Lists(S, n) == UNION {[1..m -> S] : m \in 0..n}

Chars == {65, 255}

Strings == Lists(Chars, MaxStrLen)

\* a caller's typed array of DestLen elements, each holding the same known value
Marker(kind) ==
    CASE kind = "un8" -> [k |-> 255, max |-> 255, f32 |-> FALSE]
      [] kind = "un16" -> [k |-> 65535, max |-> 65535, f32 |-> FALSE]
      [] kind \in FloatKinds -> D(FALSE, 1023, 0, 0, 0)
      [] OTHER -> I(7)

CallerArray(kind) ==
    [ref |-> "arg", type |-> ArrayType(kind), elems |-> [j \in 1..DestLen |-> Marker(kind)]]

\* setCursor: every position from -1 to size + 1, the halves 1.5, -0.5 and
\* size + 0.5, and what is not a finite number: 'one' (as in the tests), '3'
CursorArgs ==
    {Num(2 * p) : p \in -1..(BufSize + 1)}
       \cup {Num(3), Num(-1), Num(2 * BufSize + 1), NaN, Infinity(1), Infinity(-1),
              Undefined, Null, Str(<<111, 110, 101>>), Str(<<51>>)}

\* setCursor in a round trip: the positions of the buffer, and 1.5
SeekArgs == {Num(2 * p) : p \in 0..BufSize} \cup {Num(3)}

\* the region a caller wraps
OuterBytes == <<1, 2, 3, 4>>

\* constructor: sizes BufSize, BufSize + 0.5, 0, -1, -0.5, Infinity; 'one'; null and
\* undefined; an ArrayBuffer; a Node Buffer over bytes 1..2 of a region; a plain
\* object
CtorArgs ==
    {Num(2 * BufSize), Num(2 * BufSize + 1), Num(0), Num(-2), Num(-1), Infinity(1),
     Str(<<111, 110, 101>>), Null, Undefined,
     ArrayBufferOf(OuterBytes),
     NodeBuffer(ArrayBufferOf(OuterBytes), 1, 2),
     PlainObject}

\* the littleEndian argument: true, false, omitted
EndianArgs == {Bool(TRUE), Bool(FALSE), Undefined}

FocusSets == {{k} : k \in Kinds \cup {"ascii"}}

\* the methods of a caller that writes values of several kinds one after the other
MixedFocus == {"i16", "i32", "f32", "ascii"}

-----------------------------------------------------------------------------
(* The record of a call, and the sequence a round trip is made of *)

NoCall ==
    [op |-> "none", kind |-> "none", vals |-> <<>>, str |-> <<>>, arg |-> Nil, le |-> Nil,
     n |-> 0, off |-> 0, dest0 |-> Nil, c0 |-> 0, b0 |-> <<>>,
     threw |-> "none", ret |-> Nil, dest |-> Nil]

Idle == [phase |-> "idle", start |-> 0, items |-> <<>>, got |-> <<>>]

\* a single value (or string) written at c0, ending at c1
MonWrite(m, kind, v, c0, c1) ==
    LET item == [kind |-> kind, v |-> v, at |-> c0, end |-> c1]
    IN  IF m.phase = "writing" /\ Len(m.items) < MaxItems
           /\ m.items[Len(m.items)].end = c0
        THEN [m EXCEPT !.items = Append(@, item)]
        ELSE [phase |-> "writing", start |-> c0, items |-> <<item>>, got |-> <<>>]

\* a successful setCursor(p)
MonSeek(m, p) ==
    IF m.phase = "writing" /\ p = m.start
    THEN [m EXCEPT !.phase = "reading"]
    ELSE Idle

\* a single value (or string) read, the cursor ending at c1
MonRead(m, kind, ret, c1) ==
    IF m.phase = "reading" /\ Len(m.got) < Len(m.items)
       /\ m.items[Len(m.got) + 1].kind = kind
    THEN [m EXCEPT !.got = Append(@, [ret |-> ret, c1 |-> c1])]
    ELSE Idle

-----------------------------------------------------------------------------
(* The state machine *)

Init ==
    /\ pc = "new"
    /\ buffer = <<>>
    /\ size = 0
    /\ cursor = 0
    /\ littleEndian = FALSE
    /\ focus \in FocusSets
    /\ last = NoCall
    /\ mon = Idle
    /\ nops = 0

\* new ArrayBufferStream(arg, littleEndian)
Construct(arg, le) ==
    /\ pc = "new"
    /\ LET o == Constructor(arg, le)
       IN  /\ pc' = IF o.threw = "none" THEN "ready" ELSE "dead"
           /\ buffer' = o.buffer
           /\ size' = o.size
           /\ cursor' = o.cursor
           /\ littleEndian' = o.littleEndian
           /\ last' = [NoCall EXCEPT !.op = "new", !.arg = arg, !.le = le,
                                     !.threw = o.threw, !.ret = [ref |-> o.ref]]
    /\ UNCHANGED <<focus, mon, nops>>

CanCall == pc = "ready"

SetCursor(arg) ==
    /\ CanCall
    /\ LET o == SetCursorOutcome(size, cursor, arg)
       IN  /\ cursor' = o.cursor
           /\ last' = [NoCall EXCEPT !.op = "setCursor", !.arg = arg, !.c0 = cursor,
                                     !.b0 = buffer, !.threw = o.threw]
           /\ mon' = IF o.threw = "none" THEN MonSeek(mon, o.cursor) ELSE Idle
    /\ nops' = nops + 1
    /\ UNCHANGED <<pc, buffer, size, littleEndian, focus>>

WriteNumber(kind, vals) ==
    /\ CanCall
    /\ kind \in focus
    /\ LET o == Write(kind, buffer, cursor, littleEndian, vals)
       IN  /\ buffer' = o.buffer
           /\ cursor' = o.cursor
           /\ last' = [NoCall EXCEPT !.op = "write", !.kind = kind, !.vals = vals,
                                     !.c0 = cursor, !.b0 = buffer, !.threw = o.threw]
           /\ mon' = IF o.threw = "none" /\ Len(vals) = 1
                     THEN MonWrite(mon, kind, vals[1], cursor, o.cursor)
                     ELSE Idle
    /\ nops' = nops + 1
    /\ UNCHANGED <<pc, size, littleEndian, focus>>

ReadNumber(kind) ==
    /\ CanCall
    /\ kind \in focus
    /\ LET o == GetNext(kind, buffer, cursor, littleEndian)
       IN  /\ cursor' = o.cursor
           /\ last' = [NoCall EXCEPT !.op = "read", !.kind = kind, !.c0 = cursor,
                                     !.b0 = buffer, !.threw = o.threw, !.ret = o.ret]
           /\ mon' = IF o.threw = "none" THEN MonRead(mon, kind, o.ret, o.cursor) ELSE Idle
    /\ nops' = nops + 1
    /\ UNCHANGED <<pc, buffer, size, littleEndian, focus>>

ReadArray(kind, length, dest, offset) ==
    /\ CanCall
    /\ kind \in focus
    /\ LET o == GetNextArray(kind, buffer, cursor, littleEndian, length, dest, offset)
       IN  /\ cursor' = o.cursor
           /\ last' = [NoCall EXCEPT !.op = "readArray", !.kind = kind, !.n = length,
                                     !.off = offset, !.dest0 = dest, !.c0 = cursor,
                                     !.b0 = buffer, !.threw = o.threw,
                                     !.ret = IF o.threw = "none" THEN o.dest ELSE Nil,
                                     !.dest = o.dest]
    /\ mon' = Idle
    /\ nops' = nops + 1
    /\ UNCHANGED <<pc, buffer, size, littleEndian, focus>>

WriteString(str) ==
    /\ CanCall
    /\ "ascii" \in focus
    /\ LET o == WriteASCIIString(buffer, cursor, str)
       IN  /\ buffer' = o.buffer
           /\ cursor' = o.cursor
           /\ last' = [NoCall EXCEPT !.op = "writeString", !.kind = "ascii", !.str = str,
                                     !.c0 = cursor, !.b0 = buffer, !.threw = o.threw]
           /\ mon' = IF o.threw = "none"
                     THEN MonWrite(mon, "ascii", [str |-> str], cursor, o.cursor)
                     ELSE Idle
    /\ nops' = nops + 1
    /\ UNCHANGED <<pc, size, littleEndian, focus>>

ReadString ==
    /\ CanCall
    /\ "ascii" \in focus
    /\ LET o == GetNextASCIIString(buffer, size, cursor)
       IN  /\ cursor' = o.cursor
           /\ last' = [NoCall EXCEPT !.op = "readString", !.kind = "ascii", !.c0 = cursor,
                                     !.b0 = buffer, !.ret = o.ret]
           /\ mon' = MonRead(mon, "ascii", o.ret, o.cursor)
    /\ nops' = nops + 1
    /\ UNCHANGED <<pc, buffer, size, littleEndian, focus>>

Trim ==
    /\ CanCall
    /\ last' = [NoCall EXCEPT !.op = "trim", !.c0 = cursor, !.b0 = buffer,
                              !.ret = TrimToCursor(buffer, cursor)]
    /\ mon' = Idle
    /\ nops' = nops + 1
    /\ UNCHANGED <<pc, buffer, size, cursor, littleEndian, focus>>

ClampedName(kind) == "write" \o KindName(kind) \o "Clamped"

\* stream.writeXClamped(...vals): the class defines no such property, and calling
\* undefined throws a TypeError
WriteClamped(kind, vals) ==
    /\ CanCall
    /\ kind \in focus
    /\ ClampedName(kind) \notin Methods
    /\ last' = [NoCall EXCEPT !.op = "writeClamped", !.kind = kind, !.vals = vals,
                              !.c0 = cursor, !.b0 = buffer, !.threw = "TypeError"]
    /\ mon' = Idle
    /\ nops' = nops + 1
    /\ UNCHANGED <<pc, buffer, size, cursor, littleEndian, focus>>

Next ==
    \/ \E arg \in CtorArgs, le \in EndianArgs : Construct(arg, le)
    \/ \E arg \in CursorArgs : nops < MaxOps /\ SetCursor(arg)
    \/ \E kind \in Kinds : \E vals \in Lists(Vals(kind), MaxArgs) :
          nops < MaxOps /\ WriteNumber(kind, vals)
    \/ \E kind \in Kinds : nops < MaxOps /\ ReadNumber(kind)
    \/ \E kind \in Kinds, length \in 0..MaxCount :
          nops < MaxOps /\ ReadArray(kind, length, Nil, 0)
    \/ \E kind \in Kinds, length \in 0..MaxCount, offset \in 0..MaxOffset :
          nops < MaxOps /\ ReadArray(kind, length, CallerArray(kind), offset)
    \/ \E str \in Strings : nops < MaxOps /\ WriteString(str)
    \/ nops < MaxOps /\ ReadString
    \/ nops < MaxOps /\ Trim
    \/ \E kind \in IntKinds \cup NormKinds : \E v \in ClampVals(kind) :
          nops < MaxOps /\ WriteClamped(kind, <<v>>)

Spec == Init /\ [][Next]_vars

\* the calls a round trip is made of: single values and strings written, the cursor
\* set, single values and strings read
NextTrip ==
    \/ \E arg \in CtorArgs, le \in EndianArgs : Construct(arg, le)
    \/ \E arg \in SeekArgs : nops < MaxTrip /\ SetCursor(arg)
    \/ \E kind \in Kinds : \E v \in Vals(kind) : nops < MaxTrip /\ WriteNumber(kind, <<v>>)
    \/ \E kind \in Kinds : nops < MaxTrip /\ ReadNumber(kind)
    \/ \E str \in Strings : nops < MaxTrip /\ WriteString(str)
    \/ nops < MaxTrip /\ ReadString

SpecTrip == Init /\ [][NextTrip]_vars

\* a caller that writes doubles with the normalized kinds
InitNorm ==
    /\ pc = "new"
    /\ buffer = <<>>
    /\ size = 0
    /\ cursor = 0
    /\ littleEndian = FALSE
    /\ focus = NormKinds
    /\ last = NoCall
    /\ mon = Idle
    /\ nops = 0

\* the kind of the value the caller reads next
NextKindRead == mon.items[Len(mon.got) + 1].kind

\* the caller may write the next value of its sequence
MayWriteNext ==
    \/ mon.phase = "idle" /\ last.op \in {"new", "setCursor"} /\ last.threw = "none"
    \/ mon.phase = "writing" /\ Len(mon.items) < MaxItems

\* that caller's calls: the cursor set once, values written one after the other,
\* the cursor set back to the first, and each read with its own method
NextNorm ==
    \/ \E arg \in {Num(2 * BufSize), Num(0)}, le \in EndianArgs : Construct(arg, le)
    \/ \E arg \in SeekArgs :
          /\ nops < MaxMixed
          /\ nops = 0 \/ (mon.phase = "writing" /\ arg = Num(2 * mon.start))
          /\ SetCursor(arg)
    \/ \E kind \in NormKinds : \E v \in NormVals(kind) :
          nops < MaxMixed /\ MayWriteNext /\ WriteNumber(kind, <<v>>)
    \/ \E kind \in NormKinds :
          /\ nops < MaxMixed
          /\ mon.phase = "reading" /\ Len(mon.got) < Len(mon.items) /\ kind = NextKindRead
          /\ ReadNumber(kind)

SpecNorm == InitNorm /\ [][NextNorm]_vars

\* a caller that passes integers outside the range of the kind it writes
InitWrap ==
    /\ pc = "new"
    /\ buffer = <<>>
    /\ size = 0
    /\ cursor = 0
    /\ littleEndian = FALSE
    /\ focus = IntKinds
    /\ last = NoCall
    /\ mon = Idle
    /\ nops = 0

NextWrap ==
    \/ \E arg \in {Num(2 * BufSize), Num(0)}, le \in EndianArgs : Construct(arg, le)
    \/ \E arg \in SeekArgs : nops < MaxOps /\ SetCursor(arg)
    \/ \E kind \in IntKinds : \E v \in WrapVals(kind) :
          nops < MaxOps /\ WriteNumber(kind, <<v>>)
    \/ \E kind \in IntKinds : nops < MaxOps /\ ReadNumber(kind)

SpecWrap == InitWrap /\ [][NextWrap]_vars

\* a caller that uses integer, float and string methods on the same stream
InitMixed ==
    /\ pc = "new"
    /\ buffer = <<>>
    /\ size = 0
    /\ cursor = 0
    /\ littleEndian = FALSE
    /\ focus = MixedFocus
    /\ last = NoCall
    /\ mon = Idle
    /\ nops = 0

\* that caller's calls: the cursor set once, values and strings written one after
\* the other, the cursor set back to the first, and each read with its own method
NextMixed ==
    \/ \E arg \in {Num(2 * BufSize), Num(0)}, le \in EndianArgs : Construct(arg, le)
    \/ \E arg \in SeekArgs :
          /\ nops < MaxMixed
          /\ nops = 0 \/ (mon.phase = "writing" /\ arg = Num(2 * mon.start))
          /\ SetCursor(arg)
    \/ \E kind \in MixedFocus \ {"ascii"} : \E v \in Vals(kind) :
          nops < MaxMixed /\ MayWriteNext /\ WriteNumber(kind, <<v>>)
    \/ \E str \in Strings : nops < MaxMixed /\ MayWriteNext /\ WriteString(str)
    \/ \E kind \in MixedFocus \ {"ascii"} :
          /\ nops < MaxMixed
          /\ mon.phase = "reading" /\ Len(mon.got) < Len(mon.items) /\ kind = NextKindRead
          /\ ReadNumber(kind)
    \/ /\ nops < MaxMixed
       /\ mon.phase = "reading" /\ Len(mon.got) < Len(mon.items) /\ NextKindRead = "ascii"
       /\ ReadString

SpecMixed == InitMixed /\ [][NextMixed]_vars

-----------------------------------------------------------------------------
(* The claims.  Widths and ranges below are those the specification        *)
(* states, written out independently of the tables above.                  *)

SpecWidth(kind) ==
    CASE kind \in {"u8", "i8", "un8"} -> 1
      [] kind \in {"u16", "i16", "un16"} -> 2
      [] kind \in {"u32", "i32", "f32"} -> 4
      [] kind = "f64" -> 8

Returned == last.threw = "none"

\* C1: in every state of a constructed stream, 0 <= cursor <= size.
C1_CursorInRange == pc = "ready" => (0 <= cursor /\ cursor <= size)

\* C2: a single-value write or a scalar read at a cursor c in [0, size] throws the
\* out-of-bounds error exactly when c + width > size, and returns otherwise.
C2_BoundsExact ==
    (/\ last.op \in {"write", "read"}
     /\ last.op = "write" => Len(last.vals) = 1
     /\ last.c0 \in 0..size)
    => /\ last.threw \in {"none", "RangeError"}
       /\ (last.threw = "RangeError") <=> (last.c0 + SpecWidth(last.kind) > size)

C2_Witness ==
    /\ last.op = "write" /\ Len(last.vals) = 1 /\ last.kind = "f64"
    /\ last.c0 + 8 = size /\ Returned

\* C3: an integer value written alone at p, then setCursor(p), then a read of the
\* same kind returns that value, in both byte orders.
C3_IntRoundTrip ==
    (/\ mon.phase = "reading" /\ Len(mon.items) = 1 /\ Len(mon.got) = 1
     /\ mon.items[1].kind \in IntKinds)
    => mon.got[1].ret = mon.items[1].v

C3_Witness ==
    /\ mon.phase = "reading" /\ Len(mon.items) = 1 /\ Len(mon.got) = 1
    /\ mon.items[1].kind = "u32" /\ mon.items[1].v = [q |-> 65535, r |-> 65535]
    /\ mon.start > 0 /\ littleEndian

\* C4: a call that returns leaves cursor = c + n * width (n values written, one value
\* read, n values read into an array); writeASCIIString leaves c + len + 1.
C4_CursorAdvance ==
    /\ (last.op = "write" /\ Returned)
          => cursor = last.c0 + Len(last.vals) * SpecWidth(last.kind)
    /\ (last.op = "read" /\ Returned) => cursor = last.c0 + SpecWidth(last.kind)
    /\ (last.op = "readArray" /\ Returned)
          => cursor = last.c0 + last.n * SpecWidth(last.kind)
    /\ (last.op = "writeString" /\ Returned) => cursor = last.c0 + Len(last.str) + 1

C4_Witness ==
    /\ last.op = "readArray" /\ Returned /\ last.kind = "i32" /\ last.n = 2
    /\ cursor = 8

\* the number of leading values of a write at c that fit in the buffer
Fitting(kind, c, n) ==
    IF c > size THEN 0
    ELSE IF (size - c) \div SpecWidth(kind) < n THEN (size - c) \div SpecWidth(kind) ELSE n

\* C5: a write that fails for lack of room stores no byte of the value that does not
\* fit: outside the values that did fit, storage is what it was before the call.
C5_NoPartialWrite ==
    (last.op = "write" /\ last.threw = "RangeError")
    => \A i \in 0..(size - 1) :
          (i < last.c0
           \/ i >= last.c0 + Fitting(last.kind, last.c0, Len(last.vals)) * SpecWidth(last.kind))
          => buffer[i + 1] = last.b0[i + 1]

C5_Witness ==
    /\ last.op = "write" /\ last.threw = "RangeError" /\ Len(last.vals) = 1
    /\ last.kind = "u32" /\ last.c0 = size - 2 /\ \E i \in 1..size : buffer[i] # 0

LessEq(a, b) == a.q < b.q \/ (a.q = b.q /\ a.r <= b.r)

MinOf(kind) ==
    CASE kind = "i8" -> I(-128) [] kind = "i16" -> I(-32768)
      [] kind = "i32" -> [q |-> -32768, r |-> 0] [] OTHER -> I(0)

MaxOf(kind) ==
    CASE kind = "u8" -> I(255) [] kind = "i8" -> I(127)
      [] kind = "u16" -> I(65535) [] kind = "i16" -> I(32767)
      [] kind = "u32" -> [q |-> 65535, r |-> 65535] [] kind = "i32" -> [q |-> 32767, r |-> 65535]

Clamp(kind, v) ==
    IF LessEq(v, MinOf(kind)) THEN MinOf(kind)
    ELSE IF LessEq(MaxOf(kind), v) THEN MaxOf(kind) ELSE v

\* C6: writeTClamped(v) of an integer kind, with room for the value, returns, stores
\* v saturated to the kind's range at the cursor and advances the cursor by the width.
C6_ClampedWrite ==
    (/\ last.op = "writeClamped" /\ last.kind \in IntKinds
     /\ last.c0 + SpecWidth(last.kind) <= size)
    => /\ Returned
       /\ cursor = last.c0 + SpecWidth(last.kind)
       /\ GetViewValue(buffer, last.c0, KindName(last.kind), littleEndian)
             = Clamp(last.kind, last.vals[1])

\* C7: strings of chars 1..255 written one after the other from offset 0, then
\* setCursor(0): each getNextASCIIString returns the next string written and leaves
\* the cursor on the first byte of the string after it.
C7_StringRoundTrip ==
    (/\ mon.phase = "reading" /\ mon.start = 0
     /\ \A i \in 1..Len(mon.items) :
           /\ mon.items[i].kind = "ascii"
           /\ \A j \in 1..Len(mon.items[i].v.str) : mon.items[i].v.str[j] \in 1..255)
    => \A i \in 1..Len(mon.got) :
          /\ mon.got[i].ret = mon.items[i].v
          /\ mon.got[i].c1 = mon.items[i].end
          /\ i < Len(mon.items) => mon.got[i].c1 = mon.items[i + 1].at

C7_Witness ==
    /\ mon.phase = "reading" /\ mon.start = 0 /\ Len(mon.items) = 2 /\ Len(mon.got) = 2
    /\ mon.items[1].kind = "ascii" /\ mon.items[2].kind = "ascii"
    /\ mon.got[1].ret = [str |-> <<65, 255>>] /\ mon.got[2].ret = [str |-> <<255>>]

\* the results of n getNextT() calls made one after the other from cursor cur
RECURSIVE ScalarReads(_, _, _, _, _)
ScalarReads(kind, buf, cur, le, n) ==
    IF n = 0 THEN [cursor |-> cur, rets |-> <<>>]
    ELSE LET one == GetNext(kind, buf, cur, le)
             rest == ScalarReads(kind, buf, one.cursor, le, n - 1)
         IN  [cursor |-> rest.cursor, rets |-> <<one.ret>> \o rest.rets]

\* C8: getNextTArray(n, dest, offset) with the caller's array, when it returns: it
\* returns that array, element offset + i holds the i-th value read (i < n) as an
\* array of dest's element type keeps it, every other element is as the caller left it.
C8_OffsetPlacement ==
    (/\ last.op = "readArray" /\ Returned
     /\ last.dest0 # Nil /\ last.off + last.n <= Len(last.dest0.elems))
    => /\ last.ret.ref = "arg"
       /\ Len(last.ret.elems) = Len(last.dest0.elems)
       /\ \A j \in 0..(Len(last.dest0.elems) - 1) :
             last.ret.elems[j + 1] =
                IF j >= last.off /\ j < last.off + last.n
                THEN ArrayElement(last.dest0.type,
                        ScalarReads(last.kind, last.b0, last.c0, littleEndian, last.n)
                           .rets[j - last.off + 1])
                ELSE last.dest0.elems[j + 1]

C8_Witness ==
    /\ last.op = "readArray" /\ Returned /\ last.kind = "i16" /\ last.dest0 # Nil
    /\ last.off = 1 /\ last.n = 2
    /\ last.ret.elems = <<I(7), I(-32768), I(32767), I(7)>>

\* C9 as claimed: getNextTArray(n) without a destination, when it returns: a new
\* array of length n whose element i is the value the i-th of n getNextT() calls
\* from the same cursor returns, and the cursor where those n calls leave it.
C9_ElementsAreScalars ==
    (last.op = "readArray" /\ Returned /\ last.dest0 = Nil)
    => LET sr == ScalarReads(last.kind, last.b0, last.c0, littleEndian, last.n)
       IN  /\ last.ret.ref = "new"
           /\ Len(last.ret.elems) = last.n
           /\ \A i \in 1..last.n : last.ret.elems[i] = sr.rets[i]
           /\ cursor = sr.cursor

\* C9 amended: as above for u8 .. f64; for UNorm8 and UNorm16 element i is the
\* float32 nearest the value the i-th getNextUNormW() call returns.
C9_ArrayAsScalars ==
    (last.op = "readArray" /\ Returned /\ last.dest0 = Nil)
    => LET sr == ScalarReads(last.kind, last.b0, last.c0, littleEndian, last.n)
       IN  /\ last.ret.ref = "new"
           /\ Len(last.ret.elems) = last.n
           /\ \A i \in 1..last.n :
                 last.ret.elems[i] = IF last.kind \in NormKinds
                                     THEN ArrayElement("Float32", sr.rets[i])
                                     ELSE sr.rets[i]
           /\ cursor = sr.cursor

C9_Witness ==
    /\ last.op = "readArray" /\ Returned /\ last.kind = "un8" /\ last.dest0 = Nil
    /\ last.n = 2
    /\ last.ret.elems = <<[k |-> 127, max |-> 255, f32 |-> TRUE],
                          [k |-> 255, max |-> 255, f32 |-> FALSE]>>

\* the state after writeT(v1); writeT(v2); ... , stopping after the first call that throws
RECURSIVE SingleWrites(_, _, _, _, _, _)
SingleWrites(kind, buf, cur, le, vals, i) ==
    IF i > Len(vals) THEN [buffer |-> buf, cursor |-> cur, threw |-> "none"]
    ELSE LET one == Write(kind, buf, cur, le, <<vals[i]>>)
         IN  IF one.threw # "none" THEN one
             ELSE SingleWrites(kind, one.buffer, one.cursor, le, vals, i + 1)

\* C10: writeT(v1, ..., vk) ends in the state the single-value calls writeT(v1); ...;
\* writeT(vk) reach, up to and including the first one that throws.
C10_VariadicAsSingles ==
    last.op = "write"
    => LET sw == SingleWrites(last.kind, last.b0, last.c0, littleEndian, last.vals, 1)
       IN  /\ buffer = sw.buffer
           /\ cursor = sw.cursor
           /\ last.threw = sw.threw

C10_Witness ==
    /\ last.op = "write" /\ Len(last.vals) = 2 /\ last.threw = "RangeError"
    /\ buffer # last.b0

\* a position the caller may not set: NaN, undefined or text that is no number,
\* an infinity, a negative number, a number above sz
NotAPosition(arg, sz) ==
    \/ arg.t = "undefined"
    \/ arg.t = "string" /\ \E i \in 1..Len(arg.chars) : arg.chars[i] \notin 48..57
    \/ arg.t = "number" /\ (arg.nan \/ arg.inf # 0 \/ arg.twice < 0 \/ arg.twice > 2 * sz)

C12_SetCursorAccepts ==
    (/\ last.op = "setCursor" /\ last.arg.t = "number"
     /\ ~last.arg.nan /\ last.arg.inf = 0
     /\ 0 <= last.arg.twice /\ last.arg.twice <= 2 * size)
    => /\ Returned
       /\ 2 * cursor <= last.arg.twice /\ last.arg.twice < 2 * cursor + 2
       /\ buffer = last.b0

C12_Witness ==
    /\ last.op = "setCursor" /\ last.arg = Num(2 * BufSize) /\ Returned
    /\ size = BufSize /\ cursor = size /\ last.c0 = 2 /\ \E i \in 1..size : buffer[i] # 0

\* C13: new ArrayBufferStream(region) with an ArrayBuffer returns a stream whose
\* buffer is that very ArrayBuffer (so writes show in it), of its size, cursor 0.
C13_AdoptsRegion ==
    (last.op = "new" /\ last.arg.t = "ArrayBuffer")
    => /\ pc = "ready" /\ Returned
       /\ last.ret.ref = "arg"
       /\ buffer = last.arg.bytes /\ size = Len(last.arg.bytes) /\ cursor = 0

\* C14: new ArrayBufferStream(b) with a Node Buffer returns a stream over a copy of
\* bytes byteOffset .. byteOffset + byteLength - 1 of b.buffer, of size byteLength,
\* cursor 0.
C14_CopiesSubRegion ==
    (last.op = "new" /\ last.arg.t = "Buffer")
    => /\ pc = "ready" /\ Returned
       /\ last.ret.ref = "slice"
       /\ buffer = SubSeq(last.arg.buffer.bytes, last.arg.byteOffset + 1,
                          last.arg.byteOffset + last.arg.byteLength)
       /\ size = last.arg.byteLength /\ cursor = 0

\* C15: new ArrayBufferStream(n) with a finite number n >= 0 returns a stream of
\* size n without its fraction, over newly allocated bytes all 0, cursor 0.
C15_AllocatesZeroed ==
    (/\ last.op = "new" /\ last.arg.t = "number"
     /\ ~last.arg.nan /\ last.arg.inf = 0 /\ last.arg.twice >= 0)
    => /\ pc = "ready" /\ Returned
       /\ last.ret.ref = "new"
       /\ 2 * size <= last.arg.twice /\ last.arg.twice < 2 * size + 2
       /\ Len(buffer) = size /\ \A i \in 1..size : buffer[i] = 0
       /\ cursor = 0

C15_Witness ==
    /\ last.op = "new" /\ last.arg = Num(2 * BufSize + 1) /\ pc = "ready"
    /\ size = BufSize /\ Len(buffer) = BufSize

\* what is neither a size nor a region: a negative or non-finite number, text that
\* is no number, null, undefined, an object without a buffer
Unsupported(arg) ==
    \/ arg.t \in {"null", "undefined", "Object"}
    \/ arg.t = "string" /\ \E i \in 1..Len(arg.chars) : arg.chars[i] \notin 48..57
    \/ arg.t = "number" /\ (arg.nan \/ arg.inf # 0 \/ arg.twice < 0)

\* C16: new ArrayBufferStream(arg) throws, and leaves no instance, for every
\* argument that is neither a size nor a region.
C16_RejectsUnsupported ==
    (last.op = "new" /\ Unsupported(last.arg)) => (pc = "dead" /\ last.threw # "none")

WideIntKinds == {"u16", "i16", "u32", "i32"}

\* the bytes of the integer v (as 16-bit halves q, r), most significant first
SignificantFirst(kind, v) ==
    IF SpecWidth(kind) = 2
    THEN <<v.r \div 256, v.r % 256>>
    ELSE <<(v.q % 65536) \div 256, v.q % 256, v.r \div 256, v.r % 256>>

\* v does not fit in one byte of its kind's signedness
NeedsMoreThanOneByte(kind, v) ==
    IF kind \in {"u16", "u32"} THEN ~LessEq(v, I(255))
    ELSE ~(LessEq(I(-128), v) /\ LessEq(v, I(127)))

\* the bytes now at the place a round trip's item was written
StoredBytes(item) == SubSeq(buffer, item.at + 1, item.end)

\* the values of a round trip read so far are the values written
ReadsRecoverWrites ==
    mon.phase = "reading"
    => \A i \in 1..Len(mon.got) :
          mon.items[i].kind \in WideIntKinds => mon.got[i].ret = mon.items[i].v

\* C17 as claimed: littleEndian is as given to the constructor; 16- and 32-bit
\* integers written are read back; and the bytes stored for a value that needs more
\* than one byte differ from those an instance of the other byte order stores.
C17_OrdersAlwaysDiffer ==
    /\ (last.op = "new" /\ pc = "ready") => (littleEndian = (last.le = Bool(TRUE)))
    /\ ReadsRecoverWrites
    /\ \A i \in 1..Len(mon.items) :
          (mon.items[i].kind \in WideIntKinds
              /\ NeedsMoreThanOneByte(mon.items[i].kind, mon.items[i].v))
          => StoredBytes(mon.items[i])
                # NumberToRawBytes(WriteAccessor(mon.items[i].kind), mon.items[i].v,
                                   ~littleEndian)

C17_OrderInState ==
    /\ (last.op = "new" /\ pc = "ready") => (littleEndian = (last.le = Bool(TRUE)))
    /\ ReadsRecoverWrites
    /\ \A i \in 1..Len(mon.items) :
          mon.items[i].kind \in WideIntKinds
          => StoredBytes(mon.items[i])
                = IF littleEndian
                  THEN Reverse(SignificantFirst(mon.items[i].kind, mon.items[i].v))
                  ELSE SignificantFirst(mon.items[i].kind, mon.items[i].v)

\* C17 amended: littleEndian is as given to the constructor (false when omitted)
\* and never changes; 16- and 32-bit integers written are read back; a big-endian
\* instance stores the most significant byte first and a little-endian one the
\* least significant first, so the two store each other's bytes reversed.
C17_ByteOrder ==
    []C17_OrderInState /\ [][pc = "ready" => littleEndian' = littleEndian]_vars

C17_Witness ==
    /\ littleEndian /\ mon.phase = "reading" /\ Len(mon.got) = 1
    /\ mon.items[1].kind = "u32" /\ mon.items[1].v = [q |-> 258, r |-> 772]
    /\ mon.got[1].ret = [q |-> 258, r |-> 772]
    /\ StoredBytes(mon.items[1]) = <<4, 3, 2, 1>>

\* C18: a write of several values, or an array read into the caller's array, that
\* runs out of buffer after k elements throws with the first k values written (or
\* stored in the destination) and the cursor at its start plus k times the width.
C18_NoRollback ==
    LET k == Fitting(last.kind, last.c0, IF last.op = "write" THEN Len(last.vals) ELSE last.n)
    IN  /\ (last.op = "write" /\ last.threw = "RangeError" /\ last.c0 <= size)
           => /\ buffer = SingleWrites(last.kind, last.b0, last.c0, littleEndian,
                                       SubSeq(last.vals, 1, k), 1).buffer
              /\ cursor = last.c0 + k * SpecWidth(last.kind)
        /\ (last.op = "readArray" /\ last.threw = "RangeError" /\ last.c0 <= size
               /\ last.dest0 # Nil)
           => /\ \A i \in 1..k :
                    last.dest.elems[last.off + i]
                       = ArrayElement(last.dest0.type,
                            ScalarReads(last.kind, last.b0, last.c0, littleEndian, k).rets[i])
              /\ cursor = last.c0 + k * SpecWidth(last.kind)

\* C19: writeASCIIString(text) at cursor c with c + len(text) + 1 > size throws the
\* out-of-bounds error and writes no byte.
C19_StringWriteAtomic ==
    (/\ last.op = "writeString" /\ last.c0 <= size
     /\ last.c0 + Len(last.str) + 1 > size)
    => (last.threw = "RangeError" /\ buffer = last.b0)

\* the offsets from c on, below the size, that hold a 0 byte
Terminators(buf, c) == {z \in c..(Len(buf) - 1) : buf[z + 1] = 0}

\* the least element of a non-empty set of integers
Least(S) == CHOOSE z \in S : \A y \in S : z <= y

\* C20: getNextASCIIString() at cursor c returns, with the bytes from c up to the
\* first 0 byte and the cursor past that byte; when there is no 0 byte from c on,
\* with all the bytes from c to the end and the cursor at size.
C20_StringRead ==
    last.op = "readString"
    => /\ Returned
       /\ IF Terminators(last.b0, last.c0) # {}
          THEN LET z == Least(Terminators(last.b0, last.c0))
               IN  /\ last.ret.str = SubSeq(last.b0, last.c0 + 1, z)
                   /\ cursor = z + 1
          ELSE /\ last.ret.str = SubSeq(last.b0, last.c0 + 1, size)
               /\ cursor = size

\* C21: trimToCursor() returns a copy of the first cursor bytes, of length cursor,
\* and leaves cursor and bytes as they were, in every state.
C21_TrimIsPrefix ==
    last.op = "trim"
    => /\ Len(last.ret.bytes) = cursor
       /\ \A i \in 1..Len(last.ret.bytes) : last.ret.bytes[i] = buffer[i]
       /\ cursor = last.c0 /\ buffer = last.b0

\* the double v is a float32 value: no fraction bit beyond the 23rd
IsFloat32Value(v) == v.f16a % 8192 = 0 /\ v.f16b = 0

\* C22: values of mixed kinds written one after the other, then setCursor to where
\* the first was written, then read with the matching methods in the same order:
\* each read returns the value written (integers and strings exactly, a float32
\* value exactly) and ends where the next value was written.
C22_MixedRoundTrip ==
    mon.phase = "reading"
    => \A i \in 1..Len(mon.got) :
          /\ mon.got[i].c1 = mon.items[i].end
          /\ (\/ mon.items[i].kind \in IntKinds \cup {"ascii", "f64"}
              \/ mon.items[i].kind = "f32" /\ IsFloat32Value(mon.items[i].v))
             => mon.got[i].ret = mon.items[i].v

C22_Witness ==
    /\ mon.phase = "reading" /\ mon.start = 0 /\ Len(mon.got) = 3
    /\ mon.items[1].kind = "i16" /\ mon.items[2].kind = "f32" /\ mon.items[3].kind = "ascii"
    /\ mon.got[1].ret = I(-32768)
    /\ mon.got[2].ret = D(FALSE, 1025, 393216, 0, 0)
    /\ mon.got[3].ret = [str |-> <<65>>]
    /\ cursor = 8

\* 255 and 65535: the largest integer a normalized kind stores
SpecMax(kind) == IF kind = "un8" THEN 255 ELSE 65535

\* v limited to [0, 1], scaled by the kind's maximum and floored
ClampedNorm(kind, v) ==
    IF v.num < 0 THEN I(0)
    ELSE IF v.num > Pow2(v.sh) THEN I(SpecMax(kind))
    ELSE I((v.num * SpecMax(kind)) \div Pow2(v.sh))

\* C23: writeUNorm8Clamped(v) and writeUNorm16Clamped(v), with room for the value,
\* return, store 0 for v < 0, the kind's maximum for v > 1 and floor(v * max) for v
\* in [0, 1] at the cursor, and advance the cursor by the width.
C23_ClampedNormWrite ==
    (/\ last.op = "writeClamped" /\ last.kind \in NormKinds
     /\ last.c0 + SpecWidth(last.kind) <= size)
    => /\ Returned
       /\ cursor = last.c0 + SpecWidth(last.kind)
       /\ GetViewValue(buffer, last.c0, WriteAccessor(last.kind), littleEndian)
             = ClampedNorm(last.kind, last.vals[1])

\* p * 2^bits
ShiftLimbs(p, bits) == [i \in 1..(bits \div 8) |-> 0] \o TimesLimbs(p, Pow2(bits % 8), 1, 0)

Padded(p, n) == p \o [i \in 1..(n - Len(p)) |-> 0]

\* a <= b for limbs of the same length, compared from limb i down
RECURSIVE LimbsLE(_, _, _)
LimbsLE(a, b, i) ==
    IF i = 0 THEN TRUE ELSE IF a[i] # b[i] THEN a[i] < b[i] ELSE LimbsLE(a, b, i - 1)

AtMost(a, b) ==
    LET n == IF Len(a) < Len(b) THEN Len(b) ELSE Len(a)
    IN  LimbsLE(Padded(a, n), Padded(b, n), n)

\* a - b for limbs of the same length, a >= b
RECURSIVE MinusLimbs(_, _, _, _)
MinusLimbs(a, b, i, borrow) ==
    IF i > Len(a) THEN <<>>
    ELSE LET t == a[i] - b[i] - borrow
         IN  <<t % 256>> \o MinusLimbs(a, b, i + 1, IF t < 0 THEN 1 ELSE 0)

Distance(a, b) ==
    LET n == IF Len(a) < Len(b) THEN Len(b) ELSE Len(a)
    IN  IF AtMost(a, b) THEN MinusLimbs(Padded(b, n), Padded(a, n), 1, 0)
        ELSE MinusLimbs(Padded(a, n), Padded(b, n), 1, 0)

\* |x - y| <= 1 / max as real numbers, for doubles x, y in [0, 1]
WithinOneStep(x, y, max) ==
    IF x = y THEN TRUE
    ELSE LET ex == IF x.bexp = 0 THEN Exponent(y) ELSE Exponent(x)
             ey == IF y.bexp = 0 THEN Exponent(x) ELSE Exponent(y)
             low == IF ex < ey THEN ex ELSE ey
             a == ShiftLimbs(Significand(x), ex - low)
             b == ShiftLimbs(Significand(y), ey - low)
         IN  AtMost(TimesLimbs(Distance(a, b), max, 1, 0), ShiftLimbs(<<1>>, 0 - low))

\* floor(v * max) of the real product, for a double v in [0, 1]
RealFloor(v, max) == BitsFrom(TimesLimbs(Significand(v), max, 1, 0), 0 - Exponent(v), 17)

\* k is floor(v * max), or the integer the double product v * max rounds up to
StoresFloor(v, k, max) ==
    \/ k = RealFloor(v, max)
    \/ k = RealFloor(v, max) + 1 /\ TimesInt(v, max) = DivideInts(k, 1)

\* the integer stored where the i-th value of the sequence was written
StoredAt(i) ==
    GetViewValue(buffer, mon.items[i].at, WriteAccessor(mon.items[i].kind), littleEndian).r

NormReads == {i \in 1..Len(mon.got) : mon.phase = "reading" /\ mon.items[i].kind \in NormKinds}

\* C24 as stated: writeUNorm8(v) / writeUNorm16(v) of v in [0, 1] stores floor(v * max)
\* and the read at that position returns the double stored / max, within 1 / max of v.
C24_ReturnsQuotient ==
    \A i \in NormReads :
       LET max == SpecMax(mon.items[i].kind)
       IN  /\ StoresFloor(mon.items[i].v, StoredAt(i), max)
           /\ mon.got[i].ret.k = StoredAt(i) /\ mon.got[i].ret.max = max
           /\ NormToDouble(mon.got[i].ret) = DivideInts(StoredAt(i), max)
           /\ WithinOneStep(mon.items[i].v, NormToDouble(mon.got[i].ret), max)

\* C24, amended: writeUNorm8(v) / writeUNorm16(v) of v in [0, 1] stores floor(v * max)
\* (the integer itself when the double product rounds up to one) and the read at that
\* position returns the double stored * (1 / max), which is the double stored / max
\* or the double next to it, and within 1 / max of v.
C24_NormRoundTrip ==
    \A i \in NormReads :
       LET max == SpecMax(mon.items[i].kind)
           ret == NormToDouble(mon.got[i].ret)
           quot == DivideInts(StoredAt(i), max)
       IN  /\ StoresFloor(mon.items[i].v, StoredAt(i), max)
           /\ mon.got[i].ret.k = StoredAt(i) /\ mon.got[i].ret.max = max
           /\ ret = TimesInt(DivideInts(1, max), StoredAt(i))
           /\ ret = quot \/ NextDouble(ret) = quot \/ NextDouble(quot) = ret
           /\ WithinOneStep(mon.items[i].v, ret, max)

C24_Witness ==
    /\ mon.phase = "reading" /\ Len(mon.got) = 2
    /\ mon.items[1].kind = "un8" /\ mon.items[1].v = D(FALSE, 1020, 65536, 0, 0)
    /\ mon.got[1].ret.k = 33
    /\ NormToDouble(mon.got[1].ret) # DivideInts(33, 255)
    /\ mon.items[2].kind = "un16" /\ mon.got[2].ret.k = 1
    /\ RealFloor(mon.items[2].v, 65535) = 0

\* v reduced modulo 2^(8 * width) into the range of the kind (two's complement)
Wrapped(kind, v) ==
    CASE kind = "u8" -> [q |-> 0, r |-> v.r % 256]
      [] kind = "i8" -> I(IF v.r % 256 >= 128 THEN (v.r % 256) - 256 ELSE v.r % 256)
      [] kind = "u16" -> [q |-> 0, r |-> v.r]
      [] kind = "i16" -> [q |-> IF v.r >= 32768 THEN -1 ELSE 0, r |-> v.r]
      [] kind = "u32" -> [q |-> v.q % 65536, r |-> v.r]
      [] kind = "i32" ->
            [q |-> IF v.q % 65536 >= 32768 THEN (v.q % 65536) - 65536 ELSE v.q % 65536,
             r |-> v.r]

\* C25: a write of one integer outside the kind's range, with room for its bytes,
\* returns, stores the value reduced modulo 2^(8 * width) and advances the cursor by
\* the width; the kind's read at that position returns the reduced value.
C25_WrapsAround ==
    /\ (/\ last.op = "write" /\ last.kind \in IntKinds /\ Len(last.vals) = 1
        /\ last.vals[1] \in WrapVals(last.kind)
        /\ last.c0 + SpecWidth(last.kind) <= size)
       => /\ Returned
          /\ cursor = last.c0 + SpecWidth(last.kind)
          /\ GetViewValue(buffer, last.c0, KindName(last.kind), littleEndian)
                = Wrapped(last.kind, last.vals[1])
    /\ mon.phase = "reading"
       => \A i \in 1..Len(mon.got) :
             mon.got[i].ret = Wrapped(mon.items[i].kind, mon.items[i].v)

C25_Witness ==
    /\ mon.phase = "reading" /\ Len(mon.got) = 1
    /\ mon.items[1].kind = "u8" /\ mon.items[1].v = I(300)
    /\ mon.got[1].ret = I(44)
    /\ last.op = "read" /\ cursor = last.c0 + 1

\* C26: every call on a constructed stream other than setCursor (reads, writes,
\* trimToCursor, returning or throwing) leaves the cursor at or after its old value.
C26_NeverBackwards ==
    [][(pc = "ready" /\ last'.op # "setCursor") => cursor' >= cursor]_vars

C26_Witness ==
    /\ last.op = "readArray" /\ last.threw = "RangeError"
    /\ last.c0 < cursor /\ cursor < size

\* C27: a single-value write or a scalar read of a 16-, 32- or 64-bit kind at a
\* cursor c with c + width > size throws and leaves cursor and bytes as they were.
C27_FailureLeavesState ==
    (/\ last.op \in {"write", "read"}
     /\ last.op = "write" => Len(last.vals) = 1
     /\ SpecWidth(last.kind) >= 2
     /\ last.c0 + SpecWidth(last.kind) > size)
    => /\ last.threw = "RangeError"
       /\ cursor = last.c0
       /\ buffer = last.b0

C27_Witness ==
    /\ last.op = "write" /\ Len(last.vals) = 1 /\ last.kind = "u16"
    /\ last.threw = "RangeError" /\ last.c0 = size - 1
    /\ \E i \in 1..size : buffer[i] # 0

\* the bytes at the indices outside from .. from + count - 1 are those before the call
SameOutside(from, count) ==
    /\ Len(buffer) = Len(last.b0)
    /\ \A i \in 0..(Len(buffer) - 1) :
          (i < from \/ i >= from + count) => buffer[i + 1] = last.b0[i + 1]

\* C28: a write of n values of width w that returns changes no byte outside
\* c .. c + n * w - 1, a writeASCIIString of L chars that returns none outside
\* c .. c + L, and a read (scalar, array or string) no byte at all.
C28_FrameOfWrites ==
    /\ (last.op = "write" /\ Returned)
       => SameOutside(last.c0, Len(last.vals) * SpecWidth(last.kind))
    /\ (last.op = "writeString" /\ Returned) => SameOutside(last.c0, Len(last.str) + 1)
    /\ last.op \in {"read", "readArray", "readString"} => buffer = last.b0

C28_Witness ==
    /\ last.op = "write" /\ Returned /\ last.kind = "u16" /\ Len(last.vals) = 1
    /\ last.c0 = 1
    /\ buffer[1] # 0 /\ buffer[4] # 0
    /\ \A i \in 2..3 : buffer[i] # last.b0[i]

====
